---- MODULE Spec2Model ----
(***************************************************************************)
(* CodeRunner development server (CodeRunner/serve.py).                    *)
(*                                                                         *)
(* main() prints five status lines, constructs socketserver.TCPServer on   *)
(* ("", PORT) with Handler, opens the browser and runs serve_forever().    *)
(* Handler is http.server.SimpleHTTPRequestHandler with its directory set  *)
(* to the directory of the script.  The model covers two instances of the  *)
(* script on one host, the host's port table and listen queue, the clients *)
(* that connect to the port, the file system the handler reads, and the    *)
(* SIGINT that Python turns into KeyboardInterrupt.                        *)
(***************************************************************************)
EXTENDS Integers, Sequences, FiniteSets, TLC

\* ------------------------------------------------------------------ bounds

\* Longest request path, in segments.
MaxPathLen == 2

\* Number of clients that connect to the port.
NumClients == 2

\* ------------------------------------------------------- program constants

PORT == 8000

\* The two instances of the script.
Procs == {1, 2}

Clients == 1..NumClients

\* --------------------------------------------------------------- sequences

RECURSIVE SeqsUpTo(_, _)
SeqsUpTo(S, n) ==
    IF n = 0 THEN {<<>>}
    ELSE LET shorter == SeqsUpTo(S, n - 1)
         IN  shorter \cup {Append(s, x) : s \in {t \in shorter : Len(t) = n - 1}, x \in S}

IsPrefix(p, s) == Len(p) <= Len(s) /\ SubSeq(s, 1, Len(p)) = p

\* needle in hay, for sequences of words: Python's `needle in text`.
Contains(needle, hay) ==
    \E k \in 0..(Len(hay) - Len(needle)) :
        SubSeq(hay, k + 1, k + Len(needle)) = needle

\* f"{n}": the decimal digits of n.
RECURSIVE Digits(_)
Digits(n) ==
    LET d == n % 10
        ch == CASE d = 0 -> "0" [] d = 1 -> "1" [] d = 2 -> "2" [] d = 3 -> "3"
                [] d = 4 -> "4" [] d = 5 -> "5" [] d = 6 -> "6" [] d = 7 -> "7"
                [] d = 8 -> "8" [] d = 9 -> "9"
    IN  IF n < 10 THEN <<ch>> ELSE Append(Digits(n \div 10), ch)

\* ------------------------------------------------------------- file system

\* Paths are sequences of names below "/".  The script is /srv/game/serve.py.
ScriptFile == <<"srv", "game", "serve.py">>

\* os.path.dirname(os.path.abspath(__file__))
ScriptDir == SubSeq(ScriptFile, 1, Len(ScriptFile) - 1)

\* The working directories main() may be started from.
CwdChoices == {ScriptDir, <<"srv">>}

FsDirs == {<<>>, <<"srv">>, <<"srv", "game">>, <<"srv", "game", "d">>}

\* Regular files and their bytes.  /srv/index.html lies outside the script's
\* directory and has the name of a file inside it; the directory d holds a
\* file named d and no index.
FsFiles ==
    (<<"srv", "index.html">>         :> "bytes of /srv/index.html") @@
    (<<"srv", "game", "index.html">> :> "bytes of /srv/game/index.html") @@
    (<<"srv", "game", "serve.py">>   :> "bytes of /srv/game/serve.py") @@
    (<<"srv", "game", "d", "d">>     :> "bytes of /srv/game/d/d")

\* Symbolic links and their targets.
FsLinks == (<<"srv", "game", "l">> :> <<"srv", "index.html">>)

\* st_mtime of every file, in seconds.
Mtime == 1

\* The file system object a path names once its symbolic links are
\* followed, as open(), os.path.isdir() and os.path.isfile() do.
RECURSIVE RealPath(_, _)
RealPath(done, rest) ==
    IF rest = <<>> THEN done
    ELSE LET next == Append(done, Head(rest))
         IN  IF next \in DOMAIN FsLinks
             THEN RealPath(FsLinks[next], Tail(rest))
             ELSE RealPath(next, Tail(rest))

IsDir(path) == RealPath(<<>>, path) \in FsDirs

IsFile(path) == RealPath(<<>>, path) \in DOMAIN FsFiles

\* ------------------------------------------------------------ HTTP requests

\* The segments a request path is made of.  "%2e%2e" is ".." percent-encoded.
Segs == {"..", "%2e%2e", "index.html", "d", "l"}

Methods == {"GET", "HEAD", "POST"}

IMS == "If-Modified-Since"

INM == "If-None-Match"

\* The conditional headers a request may carry: none, a date before the
\* file's modification time, a date not before it, and the latter with an
\* entity tag.
HeaderChoices ==
    { {}, {<<IMS, Mtime - 1>>}, {<<IMS, Mtime>>}, {<<IMS, Mtime>>, <<INM, 0>>} }

\* A request for "/" + "/".join(segs) + ("/" if slash).
Requests ==
    [method : Methods, segs : SeqsUpTo(Segs, MaxPathLen), slash : BOOLEAN,
     headers : HeaderChoices]

\* parts.path.endswith('/')
EndsWithSlash(req) == req.slash \/ req.segs = <<>>

\* urllib.parse.unquote on one segment.
Unquote(seg) == IF seg = "%2e%2e" THEN ".." ELSE seg

RECURSIVE UnquotePath(_)
UnquotePath(segs) ==
    IF segs = <<>> THEN <<>>
    ELSE <<Unquote(Head(segs))>> \o UnquotePath(Tail(segs))

\* posixpath.normpath on an absolute path: "." and empty components go, ".."
\* removes the component before it, and ".." at the root goes.
RECURSIVE NormPath(_, _)
NormPath(done, rest) ==
    IF rest = <<>> THEN done
    ELSE LET comp == Head(rest)
         IN  IF comp = "" \/ comp = "."
             THEN NormPath(done, Tail(rest))
             ELSE IF comp = ".."
             THEN NormPath(IF done = <<>> THEN done
                           ELSE SubSeq(done, 1, Len(done) - 1), Tail(rest))
             ELSE NormPath(Append(done, comp), Tail(rest))

\* translate_path's loop: the words that are not simple names are ignored.
SimpleWords(words) == SelectSeq(words, LAMBDA w : w # "." /\ w # ".." /\ w # "")

\* SimpleHTTPRequestHandler.translate_path under `directory`.
TranslatePath(directory, req) ==
    [segs  |-> directory \o SimpleWords(NormPath(<<>>, UnquotePath(req.segs))),
     slash |-> EndsWithSlash(req)]

Response(status, served, opened, body) ==
    [status |-> status, served |-> served, opened |-> opened, body |-> body]

NotFound == Response(404, "none", <<>>, "")

\* The browser-cache test of send_head.
NotModified(req) ==
    /\ \A h \in req.headers : h[1] # INM
    /\ \E h \in req.headers : h[1] = IMS /\ Mtime <= h[2]

\* send_head once the path names no directory: open the file and answer.
SendFile(req, path, slash) ==
    IF slash THEN NotFound
    ELSE IF ~IsFile(path) THEN NotFound
    ELSE IF NotModified(req) THEN Response(304, "none", path, "")
    ELSE Response(200, "file", path,
                  IF req.method = "GET" THEN FsFiles[RealPath(<<>>, path)] ELSE "")

\* SimpleHTTPRequestHandler.send_head followed by do_GET's copyfile.
SendHead(directory, req) ==
    LET path == TranslatePath(directory, req)
    IN  IF IsDir(path.segs)
        THEN IF ~EndsWithSlash(req)
             THEN Response(301, "none", <<>>, "")
             ELSE IF IsFile(Append(path.segs, "index.html"))
             THEN SendFile(req, Append(path.segs, "index.html"), FALSE)
             ELSE IF IsFile(Append(path.segs, "index.htm"))
             THEN SendFile(req, Append(path.segs, "index.htm"), FALSE)
             ELSE Response(200, "listing", path.segs,
                           IF req.method = "GET" THEN "directory listing" ELSE "")
        ELSE SendFile(req, path.segs, path.slash)

\* Handler without its directory argument: SimpleHTTPRequestHandler then
\* serves os.getcwd().
ServingRootIsCwd(dir) == dir

\* The directory a Handler serves: the keyword argument of line 17.
ServingRoot(dir) == ScriptDir

\* BaseHTTPRequestHandler.handle_one_request for a Handler: do_GET and
\* do_HEAD exist, any other method is answered 501.
HandleOneRequest(dir, req) ==
    IF req.method \in {"GET", "HEAD"}
    THEN SendHead(ServingRoot(dir), req)
    ELSE Response(501, "none", <<>>, "")

\* ------------------------------------------------------------- the launcher

VARIABLES
    platform,   \* sys.platform of the host
    cwd,        \* cwd[i]: the working directory instance i was started in
    pc,         \* pc[i]: where instance i is in main()
    out,        \* out[i]: the lines instance i has printed
    ev,         \* ev[i]: what instance i has done, in order
    exc,        \* exc[i]: the exceptions raised in instance i, in order
    pending,    \* pending[i]: a SIGINT has arrived and is not yet raised
    sock,       \* sock[i]: the state of instance i's server socket
    browser,    \* browser[i]: the URLs passed to webbrowser.open
    queue,      \* the connections waiting in the listen queue of the port
    handling,   \* handling[i]: the connections instance i is processing
    cst,        \* cst[c]: the state of client c's connection
    sent,       \* sent[c]: client c has sent its request
    got         \* got[c]: the request of client c's connection and its answer

vars == <<platform, cwd, pc, out, ev, exc, pending, sock, browser, queue,
          handling, cst, sent, got>>

Platforms == {"linux", "darwin", "win32"}

\* str(e) of the OSError the host raises for errno, as a sequence of words.
StrError(plat, errno) ==
    CASE errno = "EADDRINUSE" /\ plat = "linux" ->
            <<"[Errno 98]", "Address", "already", "in", "use">>
      [] errno = "EADDRINUSE" /\ plat = "darwin" ->
            <<"[Errno 48]", "Address", "already", "in", "use">>
      [] errno = "EADDRINUSE" /\ plat = "win32" ->
            <<"[WinError 10048]", "Only", "one", "usage", "of", "each", "socket",
              "address", "(protocol/network", "address/port)", "is", "normally",
              "permitted">>
      [] errno = "EACCES" /\ plat = "win32" ->
            <<"[WinError 10013]", "An", "attempt", "was", "made", "to", "access",
              "a", "socket", "in", "a", "way", "forbidden", "by", "its", "access",
              "permissions">>
      [] errno = "EACCES" -> <<"[Errno 13]", "Permission", "denied">>
      [] errno = "EBADF" /\ plat = "win32" ->
            <<"[WinError 10038]", "An", "operation", "was", "attempted", "on",
              "something", "that", "is", "not", "a", "socket">>
      [] errno = "EBADF" -> <<"[Errno 9]", "Bad", "file", "descriptor">>

OSError(plat, errno) ==
    [type |-> "OSError", errno |-> errno, text |-> StrError(plat, errno)]

KeyboardInterrupt == [type |-> "KeyboardInterrupt", errno |-> "", text |-> <<>>]

\* An exception that is neither: it passes both except clauses.
OtherError == [type |-> "Exception", errno |-> "", text |-> <<>>]

Line(msg, arg) == [msg |-> msg, arg |-> arg]

\* f'http://localhost:{PORT}'
Url == <<"http://localhost:">> \o Digits(PORT)

MsgServingFrom == "Serving from:"

MsgStopped == "Server stopped by user"

MsgPortInUse == "Port {PORT} is already in use. Try a different port or close other servers."

MsgTryOpening == "You can also try opening:"

MsgErrorStarting == "Error starting server:"

\* The directory of the second status line: os.getcwd().
PrintedDir(dir) == dir

\* Lines 20-24.
StatusLines(dir) ==
    << Line("Starting CodeRunner Development Server...", <<>>),
       Line(MsgServingFrom, PrintedDir(dir)),
       Line("Server running at:", Url),
       Line("Opening game in browser...", <<>>),
       Line("Press Ctrl+C to stop the server", <<>>) >>

\* Line 34 testing only that an OSError was caught.
IsAnyOSError(e) == e.type = "OSError"

\* The test of line 34.
IsAddressInUse(e) == Contains(<<"Address", "already", "in", "use">>, e.text)

\* The body of `except OSError as e`, lines 34-38.
ExceptOSError(e) ==
    IF IsAddressInUse(e)
    THEN << Line(MsgPortInUse, Digits(PORT)), Line(MsgTryOpening, Url) >>
    ELSE << Line(MsgErrorStarting, e.text) >>

\* The body of `except KeyboardInterrupt`, line 32.
ExceptKeyboardInterrupt == << Line(MsgStopped, <<>>) >>

\* The instances that hold a listening socket on PORT.
Listeners == {i \in Procs : sock[i] = "listening"}

\* The port shared between listeners, as with allow_reuse_port set.
PortShared == TRUE

\* socket.bind on ("", PORT) with allow_reuse_address and allow_reuse_port
\* left False: the host grants the port to one socket at a time.
PortFree == Listeners = {}

\* main() going back to the try statement after a failed bind.
RetryAfterBindFailure == "try"

\* Where main() is once the except clause for a failed bind has run.
AfterBindFailure == "done"

\* A server that hands each connection to a thread of its own, as
\* socketserver.ThreadingTCPServer does.
CanAcceptThreaded(i) == TRUE

\* serve_forever handles a request inside the loop, in the thread of the loop:
\* the next connection is accepted when process_request has returned.
CanAccept(i) == handling[i] = {}

Init ==
    /\ platform \in Platforms
    /\ cwd \in [Procs -> CwdChoices]
    /\ pc = [i \in Procs |-> "init"]
    /\ out = [i \in Procs |-> <<>>]
    /\ ev = [i \in Procs |-> <<>>]
    /\ exc = [i \in Procs |-> <<>>]
    /\ pending = [i \in Procs |-> FALSE]
    /\ sock = [i \in Procs |-> "none"]
    /\ browser = [i \in Procs |-> <<>>]
    /\ queue = <<>>
    /\ handling = [i \in Procs |-> {}]
    /\ cst = [c \in Clients |-> "idle"]
    /\ sent = [c \in Clients |-> FALSE]
    /\ got = [c \in Clients |-> <<>>]

\* Lines 20-24: the status lines.
PrintStatus(i) ==
    /\ pc[i] = "init" /\ ~pending[i]
    /\ out' = [out EXCEPT ![i] = @ \o StatusLines(cwd[i])]
    /\ ev' = [ev EXCEPT ![i] = Append(@, "status")]
    /\ pc' = [pc EXCEPT ![i] = "try"]
    /\ UNCHANGED <<platform, cwd, exc, pending, sock, browser, queue, handling,
                   cst, sent, got>>

\* Line 27, the port granted: the socket is bound and listening and the
\* body of the with statement is entered.
BindOk(i) ==
    /\ pc[i] = "try" /\ ~pending[i]
    /\ PortFree
    /\ sock' = [sock EXCEPT ![i] = "listening"]
    /\ ev' = [ev EXCEPT ![i] = Append(@, "bind")]
    /\ pc' = [pc EXCEPT ![i] = "bound"]
    /\ UNCHANGED <<platform, cwd, out, exc, pending, browser, queue, handling,
                   cst, sent, got>>

\* Line 27, OSError raised by the constructor, and the except clause of
\* lines 33-38: address in use when the port is held, some other error
\* when it is not.
BindFail(i) ==
    /\ pc[i] = "try" /\ ~pending[i]
    /\ LET e == OSError(platform, IF PortFree THEN "EACCES" ELSE "EADDRINUSE")
       IN  /\ exc' = [exc EXCEPT ![i] = Append(@, e)]
           /\ out' = [out EXCEPT ![i] = @ \o ExceptOSError(e)]
    /\ ev' = [ev EXCEPT ![i] = Append(@, "bind failed")]
    /\ pc' = [pc EXCEPT ![i] = AfterBindFailure]
    /\ UNCHANGED <<platform, cwd, pending, sock, browser, queue, handling,
                   cst, sent, got>>

\* webbrowser.open called ahead of the with statement.
OpenBrowserUnbound(i) ==
    /\ pc[i] = "try" /\ ~pending[i]
    /\ browser' = [browser EXCEPT ![i] = Append(@, Url)]
    /\ ev' = [ev EXCEPT ![i] = Append(@, "browser")]
    /\ pc' = [pc EXCEPT ![i] = "browser"]
    /\ UNCHANGED <<platform, cwd, out, exc, pending, sock, queue, handling,
                   cst, sent, got>>

\* Line 29: webbrowser.open is called.
OpenBrowser(i) ==
    /\ pc[i] = "bound" /\ ~pending[i]
    /\ browser' = [browser EXCEPT ![i] = Append(@, Url)]
    /\ ev' = [ev EXCEPT ![i] = Append(@, "browser")]
    /\ pc' = [pc EXCEPT ![i] = "browser"]
    /\ UNCHANGED <<platform, cwd, out, exc, pending, sock, queue, handling,
                   cst, sent, got>>

\* Line 30: webbrowser.open has returned and serve_forever is entered.
ServeForever(i) ==
    /\ pc[i] = "browser" /\ ~pending[i]
    /\ ev' = [ev EXCEPT ![i] = Append(@, "serve")]
    /\ pc' = [pc EXCEPT ![i] = "serving"]
    /\ UNCHANGED <<platform, cwd, out, exc, pending, sock, browser, queue,
                   handling, cst, sent, got>>

\* serve_forever: get_request takes the next connection of the listen queue.
Accept(i) ==
    /\ pc[i] = "serving" /\ ~pending[i]
    /\ sock[i] = "listening"
    /\ CanAccept(i)
    /\ queue # <<>>
    /\ handling' = [handling EXCEPT ![i] = @ \cup {Head(queue)}]
    /\ cst' = [cst EXCEPT ![Head(queue)] = "accepted"]
    /\ queue' = Tail(queue)
    /\ UNCHANGED <<platform, cwd, pc, out, ev, exc, pending, sock, browser,
                   sent, got>>

\* serve_forever: a Handler is constructed for the connection, reads the
\* request the client has sent (one of reqs), answers it and closes the
\* connection; the client is free to connect again.
HandleRequest(i, reqs) ==
    /\ pc[i] = "serving" /\ ~pending[i]
    /\ \E c \in handling[i] :
        /\ sent[c]
        /\ \E req \in reqs :
            got' = [got EXCEPT ![c] =
                        << [server |-> i, req |-> req,
                            resp |-> HandleOneRequest(cwd[i], req)] >>]
        /\ handling' = [handling EXCEPT ![i] = @ \ {c}]
        /\ cst' = [cst EXCEPT ![c] = "idle"]
        /\ sent' = [sent EXCEPT ![c] = FALSE]
    /\ UNCHANGED <<platform, cwd, pc, out, ev, exc, pending, sock, browser,
                   queue>>

\* TCPServer.__exit__ and shutdown_request as an exception leaves the with
\* statement: the connections in hand and those still queued are closed,
\* and their clients are free to connect again.
Dropped(i) == handling[i] \cup {queue[k] : k \in DOMAIN queue}

\* A SIGINT arrives at instance i.
Interrupt(i) ==
    /\ pc[i] \notin {"done", "crashed"}
    /\ ~pending[i]
    /\ pending' = [pending EXCEPT ![i] = TRUE]
    /\ UNCHANGED <<platform, cwd, pc, out, ev, exc, sock, browser, queue,
                   handling, cst, sent, got>>

\* main() without its except KeyboardInterrupt clause: the with statement
\* closes the socket and the exception leaves main().
RaiseUncaught(i) ==
    /\ pending[i]
    /\ pending' = [pending EXCEPT ![i] = FALSE]
    /\ exc' = [exc EXCEPT ![i] = Append(@, KeyboardInterrupt)]
    /\ pc' = [pc EXCEPT ![i] = "crashed"]
    /\ ev' = [ev EXCEPT ![i] = Append(@, "unhandled")]
    /\ sock' = [sock EXCEPT ![i] = IF @ = "listening" THEN "closed" ELSE @]
    /\ cst' = [c \in Clients |->
                IF sock[i] = "listening" /\ c \in Dropped(i) THEN "idle" ELSE cst[c]]
    /\ sent' = [c \in Clients |->
                IF sock[i] = "listening" /\ c \in Dropped(i) THEN FALSE ELSE sent[c]]
    /\ queue' = IF sock[i] = "listening" THEN <<>> ELSE queue
    /\ handling' = [handling EXCEPT ![i] = {}]
    /\ UNCHANGED <<platform, cwd, out, browser, got>>

\* Python raises KeyboardInterrupt in the main thread.  Before the try
\* statement nothing catches it; inside, the with statement closes the
\* socket if there is one and line 32 prints.
RaiseKeyboardInterrupt(i) ==
    /\ pending[i]
    /\ pending' = [pending EXCEPT ![i] = FALSE]
    /\ exc' = [exc EXCEPT ![i] = Append(@, KeyboardInterrupt)]
    /\ IF pc[i] = "init"
       THEN /\ pc' = [pc EXCEPT ![i] = "crashed"]
            /\ ev' = [ev EXCEPT ![i] = Append(@, "unhandled")]
            /\ UNCHANGED <<out, sock, queue, handling, cst, sent>>
       ELSE IF pc[i] = "try"
       THEN /\ pc' = [pc EXCEPT ![i] = "done"]
            /\ out' = [out EXCEPT ![i] = @ \o ExceptKeyboardInterrupt]
            /\ ev' = [ev EXCEPT ![i] = Append(@, "return")]
            /\ UNCHANGED <<sock, queue, handling, cst, sent>>
       ELSE /\ pc' = [pc EXCEPT ![i] = "done"]
            /\ sock' = [sock EXCEPT ![i] = "closed"]
            /\ cst' = [c \in Clients |-> IF c \in Dropped(i) THEN "idle" ELSE cst[c]]
            /\ sent' = [c \in Clients |-> IF c \in Dropped(i) THEN FALSE ELSE sent[c]]
            /\ queue' = <<>>
            /\ handling' = [handling EXCEPT ![i] = {}]
            /\ out' = [out EXCEPT ![i] = @ \o ExceptKeyboardInterrupt]
            /\ ev' = [ev EXCEPT ![i] = @ \o <<"close", "return">>]
    /\ UNCHANGED <<platform, cwd, browser, got>>

\* serve_forever raises: an OSError of the selector reaches the except
\* clause of lines 33-38, any other exception leaves main().
ServeLoopError(i) ==
    /\ pc[i] = "serving" /\ ~pending[i]
    /\ \E e \in {OSError(platform, "EBADF"), OtherError} :
        /\ exc' = [exc EXCEPT ![i] = Append(@, e)]
        /\ IF e.type = "OSError"
           THEN /\ out' = [out EXCEPT ![i] = @ \o ExceptOSError(e)]
                /\ pc' = [pc EXCEPT ![i] = "done"]
                /\ ev' = [ev EXCEPT ![i] = @ \o <<"close", "return">>]
           ELSE /\ out' = out
                /\ pc' = [pc EXCEPT ![i] = "crashed"]
                /\ ev' = [ev EXCEPT ![i] = @ \o <<"close", "unhandled">>]
    /\ sock' = [sock EXCEPT ![i] = "closed"]
    /\ cst' = [c \in Clients |-> IF c \in Dropped(i) THEN "idle" ELSE cst[c]]
    /\ sent' = [c \in Clients |-> IF c \in Dropped(i) THEN FALSE ELSE sent[c]]
    /\ queue' = <<>>
    /\ handling' = [handling EXCEPT ![i] = {}]
    /\ UNCHANGED <<platform, cwd, pending, browser, got>>

\* A client connects to PORT: the host completes the handshake and queues
\* the connection for the listener.  Nothing has been received on it yet.
Connect(c) ==
    /\ cst[c] = "idle"
    /\ Listeners # {}
    /\ queue' = Append(queue, c)
    /\ cst' = [cst EXCEPT ![c] = "queued"]
    /\ got' = [got EXCEPT ![c] = <<>>]
    /\ UNCHANGED <<platform, cwd, pc, out, ev, exc, pending, sock, browser,
                   handling, sent>>

\* A connected client sends its request.
Send(c) ==
    /\ cst[c] \in {"queued", "accepted"}
    /\ ~sent[c]
    /\ sent' = [sent EXCEPT ![c] = TRUE]
    /\ UNCHANGED <<platform, cwd, pc, out, ev, exc, pending, sock, browser,
                   queue, handling, cst, got>>

\* GET / with no conditional header: what the browser of line 29 asks first.
RootRequest == [method |-> "GET", segs |-> <<>>, slash |-> TRUE, headers |-> {}]

\* The two instances and the clients, each client asking for RootRequest.
Next ==
    \/ \E i \in Procs :
        \/ PrintStatus(i)
        \/ BindOk(i)
        \/ BindFail(i)
        \/ OpenBrowser(i)
        \/ ServeForever(i)
        \/ Accept(i)
        \/ HandleRequest(i, {RootRequest})
        \/ Interrupt(i)
        \/ RaiseKeyboardInterrupt(i)
        \/ ServeLoopError(i)
    \/ \E c \in Clients :
        \/ Connect(c)
        \/ Send(c)

Spec == Init /\ [][Next]_vars

\* Python runs its SIGINT handler as soon as the main thread returns to the
\* interpreter loop, and a blocked select() or accept() returns for it.
FairSpec == Spec /\ \A i \in Procs : WF_vars(RaiseKeyboardInterrupt(i))

\* One instance and one client, with every request of Requests.
HttpNext ==
    \/ PrintStatus(1)
    \/ BindOk(1)
    \/ BindFail(1)
    \/ OpenBrowser(1)
    \/ ServeForever(1)
    \/ Accept(1)
    \/ HandleRequest(1, Requests)
    \/ Interrupt(1)
    \/ RaiseKeyboardInterrupt(1)
    \/ ServeLoopError(1)
    \/ Connect(1)
    \/ Send(1)

SpecHttp == Init /\ [][HttpNext]_vars

\* ------------------------------------------------------------------ claims

Range(seq) == {seq[k] : k \in DOMAIN seq}

HasLine(i, msg) == \E k \in DOMAIN out[i] : out[i][k].msg = msg

HasLineArg(i, msg, arg) ==
    \E k \in DOMAIN out[i] : out[i][k].msg = msg /\ out[i][k].arg = arg

Caught(i, errno) == \E k \in DOMAIN exc[i] : exc[i][k].errno = errno

\* How often instance i has called the TCPServer constructor.
BindAttempts(i) ==
    Cardinality({k \in DOMAIN ev[i] : ev[i][k] \in {"bind", "bind failed"}})

\* C1: an instance whose bind failed because the port is in use has printed
\* the message that names port 8000 and suggests a different port, has
\* returned from main() without an unhandled exception and has never
\* entered the serve loop.
C1_PortInUseReported ==
    \A i \in Procs :
        Caught(i, "EADDRINUSE") =>
            /\ HasLineArg(i, MsgPortInUse, <<"8", "0", "0", "0">>)
            /\ pc[i] = "done"
            /\ "serve" \notin Range(ev[i])
            /\ "unhandled" \notin Range(ev[i])

\* The startup steps instance i has taken, in order.
StartupSteps(i) ==
    SelectSeq(ev[i], LAMBDA e : e \in {"status", "bind", "browser", "serve"})

\* C2: the startup steps of every instance are, in this order, the status
\* lines, the bind, the browser on http://localhost:8000 and the serve loop;
\* the browser is opened at most once, only with the socket bound, and
\* never by an instance whose bind failed.
C2_StartupOrder ==
    \A i \in Procs :
        /\ IsPrefix(StartupSteps(i), <<"status", "bind", "browser", "serve">>)
        /\ Len(browser[i]) <= 1
        /\ \A k \in DOMAIN browser[i] :
               browser[i][k] = <<"http://localhost:", "8", "0", "0", "0">>
        /\ browser[i] # <<>> => "bind" \in Range(ev[i])
        /\ "bind failed" \in Range(ev[i]) => browser[i] = <<>>
        /\ pc[i] = "serving" => Len(browser[i]) = 1

C2_Witness == \E i \in Procs : pc[i] = "serving" /\ browser[i] # <<>>

Running(i) == pc[i] \in {"bound", "browser", "serving"}

StoppedByUser(i) ==
    /\ pc[i] = "done"
    /\ sock[i] = "closed"
    /\ HasLine(i, MsgStopped)
    /\ "unhandled" \notin Range(ev[i])

\* C3: a keyboard interrupt that arrives while an instance has its socket
\* bound, is opening the browser or is in the serve loop leads to the socket
\* closed, 'Server stopped by user' printed and main() returned with no
\* unhandled exception.
C3_InterruptStops ==
    \A i \in Procs : (pending[i] /\ Running(i)) ~> StoppedByUser(i)

C3_Witness ==
    \E i \in Procs :
        /\ StoppedByUser(i)
        /\ "serve" \in Range(ev[i])
        /\ \E k \in DOMAIN exc[i] : exc[i][k].type = "KeyboardInterrupt"

\* The error line or lines instance i printed carry the address-in-use
\* error: the port message, or the raw text of that error.
ReportedInUse(i) ==
    \/ HasLineArg(i, MsgPortInUse, <<"8", "0", "0", "0">>)
    \/ \E k \in DOMAIN exc[i] :
           /\ exc[i][k].errno = "EADDRINUSE"
           /\ HasLineArg(i, MsgErrorStarting, exc[i][k].text)

\* C4: at most one of the two instances holds a listener on port 8000 at
\* any time, and an instance that tried to bind while the other held the
\* port has reported the address-in-use error and has no listener.
C4_OneListener ==
    /\ Cardinality(Listeners) <= 1
    /\ \A i \in Procs :
           Caught(i, "EADDRINUSE") =>
               /\ sock[i] = "none"
               /\ ReportedInUse(i)
               /\ BindAttempts(i) = 1

C4_Witness ==
    \E i, j \in Procs : sock[i] = "listening" /\ Caught(j, "EADDRINUSE")

\* The lifecycle state of the specification: NOT_STARTED until the server
\* socket exists, SERVING while it is open, STOPPED once it is closed.
Lifecycle(i) ==
    CASE sock[i] = "none" -> "NOT_STARTED"
      [] sock[i] = "listening" -> "SERVING"
      [] sock[i] = "closed" -> "STOPPED"

\* C5: the lifecycle of an instance changes only from NOT_STARTED to
\* SERVING and from SERVING to STOPPED, the latter on a keyboard interrupt
\* or on an error raised in the serve loop; STOPPED is never left and the
\* bind is attempted at most once.
C5_Lifecycle ==
    [][\A i \in Procs :
          /\ BindAttempts(i)' <= 1
          /\ Lifecycle(i)' # Lifecycle(i) =>
                \/ Lifecycle(i) = "NOT_STARTED" /\ Lifecycle(i)' = "SERVING"
                \/ /\ Lifecycle(i) = "SERVING" /\ Lifecycle(i)' = "STOPPED"
                   /\ Len(exc[i]') = Len(exc[i]) + 1
                   /\ \/ exc[i]'[Len(exc[i]')].type = "KeyboardInterrupt"
                      \/ pc[i] = "serving"]_vars

C5_Witness ==
    \E i \in Procs : Lifecycle(i) = "STOPPED" /\ pc[i] \in {"done", "crashed"}

\* C6: an instance whose bind failed with an OSError other than address in
\* use has printed 'Error starting server:' with the raw error text, has not
\* printed the port message, has tried the bind once and has ended without
\* serving.
C6_OtherStartupError ==
    \A i \in Procs :
        \A k \in DOMAIN exc[i] :
            ( /\ "bind failed" \in Range(ev[i])
              /\ exc[i][k].type = "OSError"
              /\ exc[i][k].errno # "EADDRINUSE" ) =>
                /\ HasLineArg(i, MsgErrorStarting, exc[i][k].text)
                /\ ~HasLine(i, MsgPortInUse)
                /\ BindAttempts(i) = 1
                /\ pc[i] = "done"
                /\ sock[i] = "none"
                /\ "serve" \notin Range(ev[i])

C6_Witness ==
    \E i \in Procs : "bind failed" \in Range(ev[i]) /\ Caught(i, "EACCES")

\* C7: the directory of the 'Serving from:' status line is the directory the
\* instance serves, the script's own, whatever its working directory.
C7_PrintedDirIsServingRoot ==
    \A i \in Procs :
        \A k \in DOMAIN out[i] :
            out[i][k].msg = MsgServingFrom =>
                /\ out[i][k].arg = ServingRoot(cwd[i])
                /\ out[i][k].arg = ScriptDir

Inside(dir, path) == IsPrefix(dir, path)

\* The path goes through a symbolic link stored under dir.
ThroughLink(dir, path) ==
    \E n \in 1..Len(path) :
        SubSeq(path, 1, n) \in DOMAIN FsLinks /\ Inside(dir, SubSeq(path, 1, n))

\* C8, as stated: the file whose content a client received lies inside the
\* script's own directory.
C8_ContentInsideRoot ==
    \A c \in Clients :
        (got[c] # <<>> /\ got[c][1].resp.served = "file") =>
            Inside(ScriptDir, RealPath(<<>>, got[c][1].resp.opened))

\* C8, amended: the path the server opened for the file or the listing a
\* client received lies inside the script's own directory, and what it
\* names lies outside only by way of a symbolic link stored inside.
C8_PathInsideRoot ==
    \A c \in Clients :
        (got[c] # <<>> /\ got[c][1].resp.served \in {"file", "listing"}) =>
            /\ Inside(ScriptDir, got[c][1].resp.opened)
            /\ \/ Inside(ScriptDir, RealPath(<<>>, got[c][1].resp.opened))
               \/ ThroughLink(ScriptDir, got[c][1].resp.opened)

C8_Witness ==
    \E c \in Clients :
        /\ got[c] # <<>>
        /\ got[c][1].req.segs \in {<<"..", "index.html">>, <<"%2e%2e", "index.html">>}
        /\ got[c][1].resp.served = "file"
        /\ got[c][1].resp.body = "bytes of /srv/game/index.html"

\* What a request path names under the script's directory: ".." steps up,
\* never above the directory.
Named(req) == ScriptDir \o NormPath(<<>>, UnquotePath(req.segs))

NamesFile(req) == ~EndsWithSlash(req) /\ IsFile(Named(req))

\* No file and no directory has the name, or a file has it and the path
\* asks for a directory.
NamesNothing(req) ==
    /\ ~IsDir(Named(req))
    /\ ~IsFile(Named(req)) \/ EndsWithSlash(req)

\* The request says the client holds a copy no older than the file.
HoldsCurrentCopy(req) ==
    /\ \E h \in req.headers : h[1] = "If-Modified-Since" /\ h[2] >= Mtime
    /\ ~\E h \in req.headers : h[1] = "If-None-Match"

\* C9, as stated: a GET for a path that names a file under the serving root
\* is answered 200 with the bytes of the file, and a GET for a path that
\* names nothing is answered 404.
C9_GetFileOr404 ==
    \A c \in Clients :
        (got[c] # <<>> /\ got[c][1].req.method = "GET") =>
            LET req == got[c][1].req
                resp == got[c][1].resp
            IN  /\ NamesFile(req) =>
                    /\ resp.status = 200
                    /\ resp.body = FsFiles[RealPath(<<>>, Named(req))]
                /\ NamesNothing(req) => resp.status = 404

\* C9, amended: a GET for a path that names a file under the serving root
\* is answered 200 with the bytes of the file, or 304 with no body when the
\* request carries If-Modified-Since with a date not before the file's
\* modification time and no If-None-Match; a GET for a path that names
\* nothing is answered 404.
C9_GetFile304Or404 ==
    \A c \in Clients :
        (got[c] # <<>> /\ got[c][1].req.method = "GET") =>
            LET req == got[c][1].req
                resp == got[c][1].resp
            IN  /\ (NamesFile(req) /\ ~HoldsCurrentCopy(req)) =>
                    /\ resp.status = 200
                    /\ resp.body = FsFiles[RealPath(<<>>, Named(req))]
                /\ (NamesFile(req) /\ HoldsCurrentCopy(req)) =>
                    /\ resp.status = 304
                    /\ resp.body = ""
                /\ NamesNothing(req) => resp.status = 404

C9_Witness ==
    \E c \in Clients :
        /\ got[c] # <<>>
        /\ got[c][1].req.method = "GET"
        /\ got[c][1].req.segs = <<"d", "d">>
        /\ got[c][1].resp.status = 200
        /\ got[c][1].resp.body = "bytes of /srv/game/d/d"

\* C10: an instance processes at most one connection at a time, and while
\* it holds a connection whose client has not sent its request, no other
\* client is dispatched or answered.
C10_OneAtATime ==
    [][\A i \in Procs :
          /\ Cardinality(handling[i]') <= 1
          /\ \A c \in handling[i] :
                ~sent[c] =>
                    \A d \in Clients \ {c} :
                        /\ cst[d]' = "accepted" => cst[d] = "accepted"
                        /\ got[d]' = got[d] \/ got[d]' = <<>>]_vars

C10_Witness ==
    \E i \in Procs, c, d \in Clients :
        /\ handling[i] = {c} /\ ~sent[c]
        /\ d # c /\ cst[d] = "queued" /\ sent[d]

====
